---- MODULE Spec2Model ----
(***************************************************************************)
(* A model of package autocrop (Analyze and its helpers) and of package    *)
(* autocrop/util (Lowpass, Differentiate, LinearFit, Clean, ...).          *)
(*                                                                         *)
(* float64 values are modelled as exact rationals <<num, den>> in lowest   *)
(* terms with den > 0, plus the IEEE specials NaN == <<0, 0>>,             *)
(* +Inf == <<1, 0>> and -Inf == <<-1, 0>>.  Rounding error and the sign of *)
(* zero are not modelled.  Go slices are sequences; Go index i is TLA+     *)
(* index i + 1.  A Go call returns [st, v]: st = "ok" with its value,      *)
(* st = "panic" for a run-time panic, st = "hang" for a loop that never    *)
(* ends.                                                                   *)
(***************************************************************************)
EXTENDS Integers, Sequences, FiniteSets, TLC

VARIABLES
    aImg, aThresh, aFc, aN,      \* Analyze's arguments: a.img, a.thresh, a.fc and n
    left, right, top, bottom,    \* the four per-side sequences
    wg,                          \* the WaitGroup's counter
    pcMain,                      \* where Analyze's own goroutine is
    si,                          \* the loop variable i of the spawning loop
    task,                        \* task[i]: where the goroutine of sample i is
    writers,                     \* writers[i]: the tasks that wrote slot i so far
    reads,                       \* the pixel coordinates asked of grayAt so far
    transform,                   \* the Transform being built
    uXs, uOp, uArgs, uMid, uOut  \* a call of one util function: input, callee,
                                 \* arguments, Clean's intermediate slices, result

avars == <<aImg, aThresh, aFc, aN, left, right, top, bottom, wg, pcMain, si, task,
           writers, reads, transform>>
uvars == <<uXs, uOp, uArgs, uMid, uOut>>
vars == <<avars, uvars>>

(***************************************************************************)
(* float64 arithmetic                                                      *)
(***************************************************************************)
Abs(a) == IF a < 0 THEN -a ELSE a

RECURSIVE GCD(_, _)
GCD(a, b) == IF b = 0 THEN a ELSE GCD(b, a % b)

Norm(n, d) ==
    LET g == GCD(Abs(n), Abs(d))
        s == IF d < 0 THEN -1 ELSE 1
    IN  <<s * (n \div g), s * (d \div g)>>

R(n) == <<n, 1>>
Frac(n, d) == Norm(n, d)
NaN == <<0, 0>>
PosInf == <<1, 0>>
NegInf == <<-1, 0>>
IsNaN(x) == x = NaN
IsFinite(x) == x[2] # 0
IsZero(x) == x = <<0, 1>>
Sign(x) == IF x[1] > 0 THEN 1 ELSE IF x[1] < 0 THEN -1 ELSE 0

RNeg(x) == <<-x[1], x[2]>>

RAdd(x, y) ==
    IF IsNaN(x) \/ IsNaN(y) THEN NaN
    ELSE IF ~IsFinite(x) /\ ~IsFinite(y) THEN (IF x = y THEN x ELSE NaN)
    ELSE IF ~IsFinite(x) THEN x
    ELSE IF ~IsFinite(y) THEN y
    ELSE LET g == GCD(x[2], y[2])
         IN  Norm(x[1] * (y[2] \div g) + y[1] * (x[2] \div g), (x[2] \div g) * y[2])

RSub(x, y) == RAdd(x, RNeg(y))

RMul(x, y) ==
    IF IsNaN(x) \/ IsNaN(y) THEN NaN
    ELSE IF ~IsFinite(x) \/ ~IsFinite(y)
         THEN (IF Sign(x) * Sign(y) = 0 THEN NaN ELSE <<Sign(x) * Sign(y), 0>>)
    ELSE LET g1 == GCD(Abs(x[1]), y[2])
             g2 == GCD(Abs(y[1]), x[2])
         IN  Norm((x[1] \div g1) * (y[1] \div g2), (x[2] \div g2) * (y[2] \div g1))

RDiv(x, y) ==
    IF IsNaN(x) \/ IsNaN(y) THEN NaN
    ELSE IF ~IsFinite(y) THEN (IF IsFinite(x) THEN R(0) ELSE NaN)
    ELSE IF ~IsFinite(x) THEN (IF y[1] < 0 THEN RNeg(x) ELSE x)
    ELSE IF y[1] = 0 THEN <<Sign(x), 0>>
    ELSE RMul(x, IF y[1] > 0 THEN <<y[2], y[1]>> ELSE <<-y[2], -y[1]>>)

\* x < y; false when either side is NaN, as every float64 comparison is
RLt(x, y) ==
    IF IsNaN(x) \/ IsNaN(y) THEN FALSE
    ELSE IF ~IsFinite(x) \/ ~IsFinite(y)
         THEN (IF IsFinite(x) THEN y = PosInf
               ELSE IF IsFinite(y) THEN x = NegInf
               ELSE x = NegInf /\ y = PosInf)
    ELSE LET g == GCD(x[2], y[2])
         IN  x[1] * (y[2] \div g) < y[1] * (x[2] \div g)

RGt(x, y) == RLt(y, x)
RLe(x, y) == ~IsNaN(x) /\ ~IsNaN(y) /\ ~RLt(y, x)
RAbs(x) == <<Abs(x[1]), x[2]>>

\* math.Sqrt(p) squared, the only way the code uses the root (r2 = r * r)
SqrtSquared(p) == IF IsNaN(p) \/ p[1] < 0 THEN NaN ELSE p

\* Go's int(f): truncation toward zero; the conversion of NaN or Inf is
\* implementation-dependent and is kept as an undefined integer (def = FALSE)
Trunc(x) ==
    IF ~IsFinite(x) THEN [def |-> FALSE, val |-> 0]
    ELSE [def |-> TRUE,
          val |-> IF x[1] >= 0 THEN x[1] \div x[2] ELSE -((-x[1]) \div x[2])]

At(s, i) == s[i + 1]
Ok(v) == [st |-> "ok", v |-> v]
Panic == [st |-> "panic", v |-> <<>>]
Hang == [st |-> "hang", v |-> <<>>]
Min2(a, b) == IF a < b THEN a ELSE b

RECURSIVE SumSeq(_)
SumSeq(s) == IF s = <<>> THEN R(0) ELSE RAdd(SumSeq(SubSeq(s, 1, Len(s) - 1)), s[Len(s)])

(***************************************************************************)
(* package util                                                            *)
(***************************************************************************)
\* math.Pi, replaced by a rational so that the filter constant is rational
PiApprox == 3

\* RC := 1.0 / (2 * math.Pi * fc); alpha := 1.0 / (RC + 1.0)
Alpha(fc) == RDiv(R(1), RAdd(RDiv(R(1), RMul(R(2 * PiApprox), fc)), R(1)))

\* the filter loop of Lowpass for a given smoothing factor
LowpassWith(x, a) ==
    IF Len(x) = 0 THEN Panic    \* y[0] = x[0]: index out of range
    ELSE LET y[t \in 1..Len(x)] ==
                 IF t = 1 THEN x[1]
                 ELSE RAdd(y[t - 1], RMul(a, RSub(x[t], y[t - 1])))
         IN  Ok([t \in 1..Len(x) |-> y[t]])

Lowpass(x, fc) == LowpassWith(x, Alpha(fc))

Differentiate(xs) ==
    IF Len(xs) = 0 THEN Ok(<<>>)
    ELSE IF Len(xs) = 1 THEN Panic    \* xs[1]: index out of range
    ELSE LET n == Len(xs)
             ddx == [k \in 1..n |->
                        IF k = 1 THEN RSub(xs[2], xs[1])
                        ELSE IF k = n THEN RSub(xs[n], xs[n - 1])
                        ELSE RDiv(RSub(xs[k + 1], xs[k - 1]), R(2))]
         IN  Lowpass(ddx, Frac(1, 10))

Mean(xs) == RDiv(SumSeq(xs), R(Len(xs)))

AvgAbsDev(xs) ==
    LET mean == Mean(xs)
        dev == SumSeq([k \in 1..Len(xs) |-> RAbs(RSub(xs[k], mean))])
    IN  RDiv(dev, R(Len(xs)))

\* LinearFit without "n -= 1": the skipped entries still count
FitCountAll(xs) == Len(xs)

\* LinearFit's loop: entries equal to 0 are skipped (n -= 1) and the others add
\* to the five sums; x is the Go index
FitCount(xs) == Cardinality({k \in 1..Len(xs) : ~IsZero(xs[k])})

FitTerm(xs, k, which) ==
    IF IsZero(xs[k]) THEN R(0)
    ELSE IF which = "xy" THEN RMul(R(k - 1), xs[k])
    ELSE IF which = "x" THEN R(k - 1)
    ELSE IF which = "y" THEN xs[k]
    ELSE IF which = "x2" THEN R((k - 1) * (k - 1))
    ELSE RMul(xs[k], xs[k])

FitSum(xs, which) == SumSeq([k \in 1..Len(xs) |-> FitTerm(xs, k, which)])

\* r := cov / math.Sqrt(p); r2 = r * r, with sqrt(0) = 0 and sqrt(+Inf) = +Inf
FitR2(cov, p) ==
    IF IsNaN(p) THEN NaN
    ELSE IF IsFinite(p) /\ ~IsZero(p) THEN RDiv(RMul(cov, cov), p)
    ELSE RMul(RDiv(cov, p), RDiv(cov, p))

\* LinearFit with alpha = sy - beta, the factor sx forgotten
FitLineBadAlpha(cov, vx, vy, sx, sy) ==
    [beta |-> RDiv(cov, vx),
     alpha |-> RSub(sy, RDiv(cov, vx)),
     r2 |-> FitR2(cov, SqrtSquared(RMul(vx, vy)))]

\* beta, alpha and r2 from cov = xy - sx*sy, vx = x2 - sx*sx, vy = y2 - sy*sy
FitLine(cov, vx, vy, sx, sy) ==
    [beta |-> RDiv(cov, vx),
     alpha |-> RSub(sy, RMul(RDiv(cov, vx), sx)),
     r2 |-> FitR2(cov, SqrtSquared(RMul(vx, vy)))]

\* the five means after "xy /= n" ... "y2 /= n"
FitMeans(xy, sx, sy, x2, y2) ==
    FitLine(RSub(xy, RMul(sx, sy)), RSub(x2, RMul(sx, sx)), RSub(y2, RMul(sy, sy)), sx, sy)

FitSums(n, xy, sx, sy, x2, y2) ==
    FitMeans(RDiv(xy, n), RDiv(sx, n), RDiv(sy, n), RDiv(x2, n), RDiv(y2, n))

LinearFit(xs) ==
    FitSums(R(FitCount(xs)), FitSum(xs, "xy"), FitSum(xs, "x"), FitSum(xs, "y"),
            FitSum(xs, "x2"), FitSum(xs, "y2"))

\* a + b*float64(t), the fitted line at Go index t
LineAt(fit, t) == RAdd(fit.alpha, RMul(fit.beta, R(t)))

\* the literal of "if len(xs)-t < 8" in Clean
ChunkTailLen == 8

\* copy(chunk, zeroes) when dev > chunkMeanDev, for the chunk xs[t:hi]
ZeroChunk(xs, t, hi, chunkMeanDev, chunkSize) ==
    IF RGt(AvgAbsDev(SubSeq(xs, t + 1, hi)), chunkMeanDev)
    THEN [j \in 1..Len(xs) |->
             IF t + 1 <= j /\ j <= t + Min2(hi - t, chunkSize) THEN R(0) ELSE xs[j]]
    ELSE xs

\* where the chunk starting at t ends
ChunkEnd(xs, t, chunkSize) ==
    IF Len(xs) - t < ChunkTailLen THEN Len(xs) ELSE t + chunkSize

\* the chunk loop of Clean from offset t on; the slice's capacity is its length
RECURSIVE ChunkLoop(_, _, _, _)
ChunkLoop(xs, t, chunkMeanDev, chunkSize) ==
    IF t >= Len(xs) THEN Ok(xs)
    ELSE IF chunkSize = 0 THEN Hang    \* t += 0: the loop never ends
    ELSE IF ChunkEnd(xs, t, chunkSize) > Len(xs) THEN Panic    \* xs[t : t+chunkSize]
    ELSE ChunkLoop(ZeroChunk(xs, t, ChunkEnd(xs, t, chunkSize), chunkMeanDev, chunkSize),
                   t + chunkSize, chunkMeanDev, chunkSize)

CleanChunkPass(xs, chunkMeanDev, chunkSize) ==
    IF chunkSize < 0 THEN Panic    \* make([]float64, chunkSize)
    ELSE ChunkLoop(xs, 0, chunkMeanDev, chunkSize)

\* the second loop of Clean, fit being LinearFit(xs)
ZeroResiduals(xs, fit, regressionDev) ==
    [j \in 1..Len(xs) |->
        IF RGt(RAbs(RSub(LineAt(fit, j - 1), xs[j])), regressionDev) THEN R(0) ELSE xs[j]]

CleanResidualPass(xs, regressionDev) == ZeroResiduals(xs, LinearFit(xs), regressionDev)

\* the third loop of Clean with the line evaluated one index too far
FillZerosOffByOne(xs, fit) ==
    [j \in 1..Len(xs) |-> IF IsZero(xs[j]) THEN LineAt(fit, j) ELSE xs[j]]

\* the third loop of Clean, fit being LinearFit(xs)
FillZeros(xs, fit) ==
    [j \in 1..Len(xs) |-> IF IsZero(xs[j]) THEN LineAt(fit, j - 1) ELSE xs[j]]

CleanFillPass(xs) == FillZeros(xs, LinearFit(xs))

\* the two loops after the chunk loop; c is the chunk loop's outcome
CleanAfterChunks(c, regressionDev) ==
    IF c.st # "ok" THEN c ELSE Ok(CleanFillPass(CleanResidualPass(c.v, regressionDev)))

\* Clean works in place: v is the slice's content when Clean returns
Clean(xs, cutoff, regressionDev, chunkMeanDev, chunkSize) ==
    CleanAfterChunks(CleanChunkPass(xs, chunkMeanDev, chunkSize), regressionDev)

Trim(xs, thresh) ==
    LET good == {t \in 0..(Len(xs) - 1) : RLt(At(xs, t), thresh) /\ RGt(At(xs, t), R(0))}
        least == CHOOSE t \in good : \A u \in good : t <= u
        most == CHOOSE t \in good : \A u \in good : u <= t
    IN  [lo |-> IF good = {} THEN 0 ELSE least,
         hi |-> IF good = {} THEN Len(xs) ELSE most + 1]

(***************************************************************************)
(* package autocrop: the edge detector                                     *)
(***************************************************************************)
\* search with the running maximum never updated: the first crossing is returned
FallingEdgeKeepsFirst(d, thresh, i, max, maxI) == maxI

\* the inner loop (findPeakFallingEdge) from Go index i on
RECURSIVE FallingEdge(_, _, _, _, _)
FallingEdge(d, thresh, i, max, maxI) ==
    IF i >= Len(d) THEN maxI
    ELSE IF ~RGt(At(d, i), thresh) /\ ~IsNaN(At(d, i)) THEN maxI    \* sample <= thresh
    ELSE IF RGt(At(d, i), max) THEN FallingEdge(d, thresh, i + 1, At(d, i), i)
    ELSE FallingEdge(d, thresh, i + 1, max, maxI)

\* the outer loop (findPeak) from Go index i on; edge stays 0 when nothing is found
RECURSIVE FindPeak(_, _, _)
FindPeak(d, thresh, i) ==
    IF i >= Len(d) THEN 0
    ELSE IF RGt(At(d, i), thresh) THEN FallingEdge(d, thresh, i, At(d, i), i)
    ELSE FindPeak(d, thresh, i + 1)

\* d := util.Differentiate(samples), s being util.Lowpass(samples, a.fc)
DerivativeOf(s) == IF s.st # "ok" THEN s ELSE Differentiate(s.v)

\* the scan of search over d
PeakOf(d, thresh) == IF d.st # "ok" THEN d ELSE Ok(R(FindPeak(d.v, thresh, 0)))

search(samples, thresh, fc) == PeakOf(DerivativeOf(Lowpass(samples, fc)), thresh)

(***************************************************************************)
(* package autocrop: sampling                                              *)
(***************************************************************************)
\* An image is [dx, dy, kind, mg, skew] with bounds (0,0)-(dx,dy), as decoded
\* images have.  kind "gray" is *image.Gray with Stride = dx and
\* len(Pix) = dx*dy; kind "rgba" is any other standard image type, whose At
\* returns the zero colour outside the bounds.  The pixels show a white page
\* (255) on black (0): the page leaves a border of mg pixels, one pixel wider
\* per skew in the second half of each side; mg = -1 is an all-black image.
PixelOf(img, x, y) ==
    LET bx == img.mg + (IF 2 * y >= img.dy THEN img.skew ELSE 0)
        by == img.mg + (IF 2 * x >= img.dx THEN img.skew ELSE 0)
    IN  IF img.mg < 0 THEN 0
        ELSE IF x >= bx /\ x < img.dx - bx /\ y >= by /\ y < img.dy - by THEN 255
        ELSE 0

InBounds(img, x, y) == 0 <= x /\ x < img.dx /\ 0 <= y /\ y < img.dy

grayAt(img, x, y) ==
    IF img.kind = "gray"
    THEN LET off == y * img.dx + x    \* p.Pix[p.PixOffset(x, y)]
         IN  IF off < 0 \/ off >= img.dx * img.dy THEN Panic
             ELSE Ok(PixelOf(img, off % img.dx, off \div img.dx))
    ELSE IF InBounds(img, x, y) THEN Ok(PixelOf(img, x, y))
    ELSE Ok(0)

\* the x (or y) values the loop "for x := start; x != end; x += delta" visits
Walk(start, end, delta) ==
    [k \in 1..Abs(end - start) |-> start + delta * (k - 1)]

\* the loop of sampleX / sampleY: samples[i] = float64(a.grayAt(x, y)) at each
\* of the coordinates in turn
SampleAt(img, coords) ==
    IF \E k \in 1..Len(coords) : grayAt(img, coords[k][1], coords[k][2]).st # "ok"
    THEN Panic
    ELSE Ok([k \in 1..Len(coords) |-> R(grayAt(img, coords[k][1], coords[k][2]).v)])

\* the coordinates sampleX(samples, y, start, end, delta) visits
CoordsX(y, start, end, delta) ==
    [k \in 1..Abs(end - start) |-> <<Walk(start, end, delta)[k], y>>]

\* the coordinates sampleY(samples, x, start, end, delta) visits
CoordsY(x, start, end, delta) ==
    [k \in 1..Abs(end - start) |-> <<x, Walk(start, end, delta)[k]>>]

\* "m := dx / 16", the portion of the image that is processed
WindowDiv == 16

\* the pixel coordinates a walk asks grayAt for, up to the first panic
RECURSIVE ReadsUpTo(_, _, _)
ReadsUpTo(img, coords, k) ==
    IF k > Len(coords) THEN {}
    ELSE IF grayAt(img, coords[k][1], coords[k][2]).st # "ok" THEN {coords[k]}
    ELSE {coords[k]} \cup ReadsUpTo(img, coords, k + 1)

\* a.search(samples) after a sampleX / sampleY call whose outcome is s
SearchSampled(s, thresh, fc) == IF s.st # "ok" THEN s ELSE search(s.v, thresh, fc)

\* the far-side half of analyzeX / analyzeY, e1 being the near side's outcome:
\* v is <<near edge, far edge>>, reads the coordinates asked of grayAt
FarSide(img, near, far, e1, e2) ==
    IF e1.st # "ok" THEN [st |-> "panic", v |-> <<>>, reads |-> ReadsUpTo(img, near, 1)]
    ELSE [st |-> e2.st,
          v |-> IF e2.st = "ok" THEN <<e1.v, e2.v>> ELSE <<>>,
          reads |-> ReadsUpTo(img, near, 1) \cup ReadsUpTo(img, far, 1)]

\* near-side sample and search, then far-side sample and search
AnalyzeLine(img, near, far, thresh, fc) ==
    FarSide(img, near, far, SearchSampled(SampleAt(img, near), thresh, fc),
            SearchSampled(SampleAt(img, far), thresh, fc))

analyzeX(img, y, thresh, fc) ==
    AnalyzeLine(img, CoordsX(y, 0, img.dx \div WindowDiv, 1),
                CoordsX(y, img.dx, img.dx - img.dx \div WindowDiv, -1), thresh, fc)

analyzeY(img, x, thresh, fc) ==
    AnalyzeLine(img, CoordsY(x, 0, img.dy \div WindowDiv, 1),
                CoordsY(x, img.dy, img.dy - img.dy \div WindowDiv, -1), thresh, fc)

(***************************************************************************)
(* package autocrop: analyzeResult                                         *)
(***************************************************************************)
TrimQ == 200
RegressionDev == 24
ChunkMeanDev == 4
ChunkSize == 8

\* angle (as its tangent), confidence and crop from the final fit
SideResult(fit, len, dir, n, d) ==
    Ok([tan |-> RDiv(RMul(RMul(fit.beta, R(dir)), R(n)), R(d)),
        confidence |-> fit.r2,
        crop |-> Trunc(RAdd(fit.alpha, RDiv(RMul(fit.beta, R(len)), R(2))))])

\* after util.Clean, whose outcome is c; tr is Trim's (lo, hi) for edges[lo:hi]
AfterClean(tr, c, dir, n, d) ==
    IF c.st # "ok" THEN c
    ELSE IF tr.lo > tr.hi \/ tr.hi > Len(c.v) THEN Panic
    ELSE SideResult(LinearFit(c.v), Len(c.v), dir, n, d)

\* after util.Lowpass(edges, .1), whose outcome is lp
AfterLowpass(tr, lp, dir, n, d) ==
    IF lp.st # "ok" THEN lp
    ELSE AfterClean(tr, Clean(lp.v, R(TrimQ), R(RegressionDev), R(ChunkMeanDev), ChunkSize),
                    dir, n, d)

analyzeResult(edges, dir, n, d) ==
    AfterLowpass(Trim(edges, R(TrimQ)), Lowpass(edges, Frac(1, 10)), dir, n, d)

(***************************************************************************)
(* Analyze as a state machine                                              *)
(***************************************************************************)
MaxN == 3
Dims == {16, 32, 48}
Images ==
    [dx : Dims, dy : {32, 48}, kind : {"gray", "rgba"}, mg : {-1, 1}, skew : {0, 1}]
Zeros(k) == [j \in 1..k |-> R(0)]
NoCrop == [def |-> TRUE, val |-> 0]
Transform0 ==
    [tans |-> Zeros(4), Confidence |-> Zeros(4),
     MinX |-> NoCrop, MinY |-> NoCrop, MaxX |-> NoCrop, MaxY |-> NoCrop]

UtilIdle ==
    /\ uXs = <<>>
    /\ uOp = "idle"
    /\ uArgs = <<>>
    /\ uMid = <<>>
    /\ uOut = <<>>

\* the state after Analyze's var block: the slices are made, nothing has run
Init ==
    /\ aImg \in Images
    /\ aN \in 0..MaxN
    /\ aThresh = R(12)
    /\ aFc = Frac(1, 10)
    /\ left = Zeros(aN) /\ right = Zeros(aN) /\ top = Zeros(aN) /\ bottom = Zeros(aN)
    /\ wg = 0
    /\ pcMain = "add"
    /\ si = 0
    /\ task = [i \in 0..(aN - 1) |-> "unborn"]
    /\ writers = [i \in 0..(aN - 1) |-> {}]
    /\ reads = {}
    /\ transform = Transform0
    /\ UtilIdle

\* what no step of Analyze changes: its arguments, and the util call's record
Args == <<aImg, aN, aThresh, aFc, uvars>>

\* wg.Add(n)
WgAdd ==
    /\ pcMain = "add"
    /\ wg' = wg + aN
    /\ pcMain' = "spawn"
    /\ UNCHANGED <<Args, left, right, top, bottom, si, task, writers, reads, transform>>

\* one iteration of "for i := 0; i < n; i++ { go func(i int) {...}(i) }"
Spawn ==
    /\ pcMain = "spawn"
    /\ si < aN
    /\ task' = [task EXCEPT ![si] = "x"]
    /\ si' = si + 1
    /\ UNCHANGED <<Args, left, right, top, bottom, wg, pcMain, writers, reads, transform>>

\* the loop ends
SpawnEnd ==
    /\ pcMain = "spawn"
    /\ si >= aN
    /\ pcMain' = "wait"
    /\ UNCHANGED <<Args, left, right, top, bottom, wg, si, task, writers, reads, transform>>

\* the goroutine reading the loop variable itself instead of its parameter
TaskIndexLoopVar(i, loopVar) == loopVar

\* the index the goroutine uses: its own parameter i, a copy of the loop variable
TaskIndex(i, loopVar) == i

\* the goroutine's two assignments: r is the outcome of analyzeX or analyzeY for
\* index k; a panic in a goroutine ends the program
TaskWrite(i, k, r, near, far, nextPc) ==
    /\ reads' = reads \cup r.reads
    /\ IF r.st = "ok"
       THEN /\ near' = [near EXCEPT ![k + 1] = r.v[1]]
            /\ far' = [far EXCEPT ![k + 1] = r.v[2]]
            /\ writers' = [j \in DOMAIN writers |->
                              IF j = k THEN writers[j] \cup {i} ELSE writers[j]]
            /\ task' = [task EXCEPT ![i] = nextPc]
            /\ UNCHANGED pcMain
       ELSE /\ pcMain' = "panic"
            /\ UNCHANGED <<near, far, writers, task>>

\* left[i], right[i] = a.analyzeX(i * dy / n)
TaskX(i) ==
    /\ pcMain \notin {"panic", "done"}
    /\ task[i] = "x"
    /\ TaskWrite(i, TaskIndex(i, si),
                 analyzeX(aImg, (TaskIndex(i, si) * aImg.dy) \div aN, aThresh, aFc),
                 left, right, "y")
    /\ UNCHANGED <<Args, top, bottom, wg, si, transform>>

\* top[i], bottom[i] = a.analyzeY(i * dx / n)
TaskY(i) ==
    /\ pcMain \notin {"panic", "done"}
    /\ task[i] = "y"
    /\ TaskWrite(i, TaskIndex(i, si),
                 analyzeY(aImg, (TaskIndex(i, si) * aImg.dx) \div aN, aThresh, aFc),
                 top, bottom, "signal")
    /\ UNCHANGED <<Args, left, right, wg, si, transform>>

\* wg.Done()
TaskDone(i) ==
    /\ pcMain \notin {"panic", "done"}
    /\ task[i] = "signal"
    /\ wg' = wg - 1
    /\ task' = [task EXCEPT ![i] = "finished"]
    /\ UNCHANGED <<Args, left, right, top, bottom, pcMain, si, writers, reads, transform>>

\* wg.Wait() returning while one task has not signalled yet
WaitPassesEarly(counter) == counter <= 1

\* wg.Wait() returns when the counter is zero
WaitPasses(counter) == counter = 0

WgWait ==
    /\ pcMain = "wait"
    /\ WaitPasses(wg)
    /\ pcMain' = "top"
    /\ UNCHANGED <<Args, left, right, top, bottom, wg, si, task, writers, reads, transform>>

\* the assignment of one analyzeResult call, r being its outcome
SideWrite(r, next, slot, field) ==
    IF r.st = "ok"
    THEN /\ transform' = [transform EXCEPT !.tans[slot] = r.v.tan,
                                           !.Confidence[slot] = r.v.confidence,
                                           ![field] = r.v.crop]
         /\ pcMain' = next
    ELSE /\ pcMain' = "panic"
         /\ UNCHANGED transform

\* one of the four analyzeResult calls, in the order top, right, bottom, left
Side(pc, next, edges, dir, d, slot, field) ==
    /\ pcMain = pc
    /\ SideWrite(analyzeResult(edges, dir, aN, d), next, slot, field)
    /\ UNCHANGED <<Args, left, right, top, bottom, wg, si, task, writers, reads>>

SideTop == Side("top", "right", top, -1, aImg.dx, 1, "MinY")
SideRight == Side("right", "bottom", right, -1, aImg.dy, 2, "MaxX")
SideBottom == Side("bottom", "left", bottom, 1, aImg.dx, 3, "MaxY")
SideLeft == Side("left", "flip", left, 1, aImg.dy, 4, "MinX")

\* dimension - crop, an undefined crop staying undefined
FarEdge(d, c) == [def |-> c.def, val |-> IF c.def THEN d - c.val ELSE 0]

\* t.Bounds.Max.X = dx - t.Bounds.Max.X; t.Bounds.Max.Y = dy - t.Bounds.Max.Y;
\* t.Angle is the mean of the arctangents of transform.tans; return t
Flip ==
    /\ pcMain = "flip"
    /\ transform' = [transform EXCEPT !.MaxX = FarEdge(aImg.dx, transform.MaxX),
                                      !.MaxY = FarEdge(aImg.dy, transform.MaxY)]
    /\ pcMain' = "done"
    /\ UNCHANGED <<Args, left, right, top, bottom, wg, si, task, writers, reads>>

Next ==
    \/ WgAdd
    \/ Spawn
    \/ SpawnEnd
    \/ \E i \in 0..(aN - 1) : TaskX(i)
    \/ \E i \in 0..(aN - 1) : TaskY(i)
    \/ \E i \in 0..(aN - 1) : TaskDone(i)
    \/ WgWait
    \/ SideTop
    \/ SideRight
    \/ SideBottom
    \/ SideLeft
    \/ Flip

Spec == Init /\ [][Next]_vars

(***************************************************************************)
(* Single calls of the util functions and of search, on bounded inputs     *)
(***************************************************************************)
MaxLen == 4
MaxRampLen == 9
Vals == {0, 1, 2, 40}
RampAlphas == 1..3
RampBetas == -1..2
Cutoffs == {Frac(1, 6), Frac(1, 10)}
Threshs == {R(1), R(12)}
ChunkSizes == {-1, 0, 1, 2, 8, 16}
RegressionDevs == {R(1), R(24)}

Floats(q) == [k \in 1..Len(q) |-> R(q[k])]
Ramp(a, b, len) == [k \in 1..len |-> R(a + b * (k - 1))]
\* a ramp with the entry at Go index at replaced by v
Burst(a, b, len, at, v) == [k \in 1..len |-> IF k = at + 1 THEN R(v) ELSE R(a + b * (k - 1))]

SmallSeqs == UNION {{Floats(q) : q \in [1..k -> Vals]} : k \in 0..MaxLen}
Ramps == {Ramp(a, b, len) : a \in RampAlphas, b \in RampBetas, len \in 2..MaxRampLen}
Bursts == {Burst(a, 1, MaxRampLen, at, v) : a \in RampAlphas, at \in 0..(MaxRampLen - 1),
                                            v \in {0, 40}}
Inputs == SmallSeqs \cup Ramps \cup Bursts

AnalyzeIdle ==
    /\ aImg = [dx |-> 32, dy |-> 32, kind |-> "rgba", mg |-> 1, skew |-> 0]
    /\ aN = 0
    /\ aThresh = R(12)
    /\ aFc = Frac(1, 10)
    /\ left = <<>> /\ right = <<>> /\ top = <<>> /\ bottom = <<>>
    /\ wg = 0
    /\ pcMain = "idle"
    /\ si = 0
    /\ task = <<>>
    /\ writers = <<>>
    /\ reads = {}
    /\ transform = Transform0

InitUtil ==
    /\ AnalyzeIdle
    /\ uXs \in Inputs
    /\ uOp = "idle"
    /\ uArgs = <<>>
    /\ uMid = <<>>
    /\ uOut = <<>>

\* the record of one call
Called(op, args, mid, out) ==
    /\ uOp = "idle"
    /\ uOp' = op
    /\ uArgs' = args
    /\ uMid' = mid
    /\ uOut' = out
    /\ UNCHANGED <<uXs, avars>>

\* the filters are called on the short inputs only: the denominators of their
\* results grow as 8^len
CallLowpass ==
    /\ Len(uXs) <= MaxLen
    /\ \E f \in Cutoffs : Called("Lowpass", <<f>>, <<>>, Lowpass(uXs, f))

CallDifferentiate ==
    /\ Len(uXs) <= MaxLen
    /\ Called("Differentiate", <<>>, <<>>, Differentiate(uXs))

CallLinearFit == Called("LinearFit", <<>>, <<>>, Ok(LinearFit(uXs)))

\* Clean's outcome, with the slice as it is after the first and after the
\* second loop, c being the first loop's outcome
CleanCall(c, regressionDev, chunkSize) ==
    Called("Clean", <<regressionDev, R(ChunkMeanDev), chunkSize>>,
           IF c.st = "ok" THEN <<c.v, CleanResidualPass(c.v, regressionDev)>> ELSE <<>>,
           Clean(uXs, R(TrimQ), regressionDev, R(ChunkMeanDev), chunkSize))

CallClean ==
    \E rd \in RegressionDevs, cs \in ChunkSizes :
        CleanCall(CleanChunkPass(uXs, R(ChunkMeanDev), cs), rd, cs)

\* search's outcome, with the derivative it scanned
CallSearch ==
    /\ Len(uXs) <= MaxLen
    /\ \E th \in Threshs, f \in Cutoffs :
           Called("search", <<th, f>>, DerivativeOf(Lowpass(uXs, f)), search(uXs, th, f))

NextUtil ==
    \/ CallLowpass
    \/ CallDifferentiate
    \/ CallLinearFit
    \/ CallClean
    \/ CallSearch

SpecUtil == InitUtil /\ [][NextUtil]_vars

(***************************************************************************)
(* The claims                                                              *)
(***************************************************************************)
Joined == {"top", "right", "bottom", "left", "flip", "done"}

\* the edges Analyze's sample i must produce, whatever the schedule
EdgesX(i) == analyzeX(aImg, (i * aImg.dy) \div aN, aThresh, aFc).v
EdgesY(i) == analyzeY(aImg, (i * aImg.dx) \div aN, aThresh, aFc).v
SeqOf(F(_), side) == [k \in 1..aN |-> F(k - 1)[side]]

\* C1: in every interleaving task i writes only slot i of the four sequences,
\* no slot is written by two tasks, at the join slot i holds the edges computed
\* for sample i, and the returned Transform is the one computed from them.
C1_SlotsIndependentOfSchedule ==
    /\ \A i \in DOMAIN writers : writers[i] \subseteq {i}
    /\ pcMain \in Joined =>
          /\ \A i \in DOMAIN writers : writers[i] = {i}
          /\ left = SeqOf(EdgesX, 1) /\ right = SeqOf(EdgesX, 2)
          /\ top = SeqOf(EdgesY, 1) /\ bottom = SeqOf(EdgesY, 2)
    /\ pcMain = "done" =>
          /\ transform.Confidence =
                 <<analyzeResult(SeqOf(EdgesY, 1), -1, aN, aImg.dx).v.confidence,
                   analyzeResult(SeqOf(EdgesX, 2), -1, aN, aImg.dy).v.confidence,
                   analyzeResult(SeqOf(EdgesY, 2), 1, aN, aImg.dx).v.confidence,
                   analyzeResult(SeqOf(EdgesX, 1), 1, aN, aImg.dy).v.confidence>>
          /\ transform.MinY = analyzeResult(SeqOf(EdgesY, 1), -1, aN, aImg.dx).v.crop
          /\ transform.MinX = analyzeResult(SeqOf(EdgesX, 1), 1, aN, aImg.dy).v.crop

C1_Witness ==
    /\ pcMain = "done"
    /\ aN >= 2
    /\ \E i, j \in 1..aN : right[i] # right[j] \/ top[i] # top[j]

\* C2: whenever Analyze is at or past the per-side analysis, every one of the
\* n tasks has written its slots and signalled, and the counter is back at zero.
C2_JoinAfterAllTasks ==
    pcMain \in Joined =>
        /\ wg = 0
        /\ Cardinality({i \in DOMAIN task : task[i] = "finished"}) = aN
        /\ \A i \in DOMAIN writers : writers[i] = {i}

C2_Witness == pcMain = "top" /\ aN >= 2

\* the Go indices of d whose value exceeds thresh, and the first run of them
Above(d, th) == {i \in 0..(Len(d) - 1) : RGt(At(d, i), th)}
FirstAbove(d, th) == CHOOSE i \in Above(d, th) : \A j \in Above(d, th) : i <= j
FirstRun(d, th) ==
    {j \in Above(d, th) : \A k \in FirstAbove(d, th)..j : k \in Above(d, th)}

\* C3: search returns the index of the maximum of the derivative d within the
\* first maximal run of values above thresh, 0 when no value exceeds thresh, and
\* always an offset inside the sampled window.
C3_SearchFindsPeakOfFirstRun ==
    (uOp = "search" /\ uOut.st = "ok") =>
        /\ uOut.v[2] = 1
        /\ Len(uMid.v) = Len(uXs)
        /\ 0 <= uOut.v[1] /\ uOut.v[1] < Len(uXs)
        /\ IF Above(uMid.v, uArgs[1]) = {} THEN uOut.v[1] = 0
           ELSE /\ uOut.v[1] \in FirstRun(uMid.v, uArgs[1])
                /\ \A j \in FirstRun(uMid.v, uArgs[1]) :
                       RLe(At(uMid.v, j), At(uMid.v, uOut.v[1]))

C3_Witness ==
    /\ uOp = "search"
    /\ uOut.st = "ok"
    /\ Above(uMid.v, uArgs[1]) # {}
    /\ uOut.v[1] > FirstAbove(uMid.v, uArgs[1])

\* C4: Analyze with n = 0 neither panics nor returns a Transform: it ends by
\* reporting an error.
C4_ZeroSamplesRejected == aN = 0 => pcMain \notin {"panic", "done"}

\* C5: Lowpass, Differentiate, LinearFit and Clean return a value for every
\* input sequence and every chunkSize.
C5_StagesAlwaysReturn ==
    uOp \in {"Lowpass", "Differentiate", "LinearFit", "Clean"} => uOut.st = "ok"

InUnit(x) == RLe(R(0), x) /\ RLe(x, R(1))
NonZero(xs) == {k \in 1..Len(xs) : ~IsZero(xs[k])}

\* C6 as stated: r2 is a number in [0, 1] for every sequence.
C6_R2InUnitInterval == uOp = "LinearFit" => InUnit(uOut.v.r2)

\* C6 amended: r2 is in [0, 1] when at least two entries are non-zero and the
\* non-zero entries are not all equal, and is NaN otherwise.
C6_R2InUnitIntervalOrNaN ==
    uOp = "LinearFit" =>
        IF /\ Cardinality(NonZero(uXs)) >= 2
           /\ \E j, k \in NonZero(uXs) : uXs[j] # uXs[k]
        THEN InUnit(uOut.v.r2)
        ELSE IsNaN(uOut.v.r2)

C6_Witness ==
    /\ uOp = "LinearFit"
    /\ RLt(R(0), uOut.v.r2)
    /\ RLt(uOut.v.r2, R(1))

IsRamp(xs, a, b) == Len(xs) >= 2 /\ xs = Ramp(a, b, Len(xs)) /\ NonZero(xs) = 1..Len(xs)

\* C7 as stated: a ramp alpha + beta*i without zeros is fitted with intercept
\* alpha, slope beta and r2 = 1.
C7_RampRoundTrip ==
    uOp = "LinearFit" =>
        \A a \in RampAlphas, b \in RampBetas :
            IsRamp(uXs, a, b) => uOut.v = [alpha |-> R(a), beta |-> R(b), r2 |-> R(1)]

\* C7 amended: the intercept and the slope are recovered, and r2 = 1 unless
\* beta = 0, where r2 is NaN.
C7_RampRoundTripSloped ==
    uOp = "LinearFit" =>
        \A a \in RampAlphas, b \in RampBetas :
            IsRamp(uXs, a, b) =>
                uOut.v = [alpha |-> R(a), beta |-> R(b),
                          r2 |-> IF b = 0 THEN NaN ELSE R(1)]

C7_Witness ==
    /\ uOp = "LinearFit"
    /\ Len(uXs) >= 3
    /\ \E a \in RampAlphas, b \in RampBetas \ {0} : IsRamp(uXs, a, b)
    /\ uOut.v.r2 = R(1)

\* C8 as stated: no entry of the cleaned sequence is zero.
C8_CleanedIsDense ==
    (uOp = "Clean" /\ uOut.st = "ok") => \A j \in 1..Len(uOut.v) : ~IsZero(uOut.v[j])

\* C8 amended: every entry that is zero after the two zeroing passes holds the
\* refitted line's value at its index, every other entry is kept, and so an
\* entry of the result is zero only where that line is zero.
C8_CleanedFollowsRefit ==
    (uOp = "Clean" /\ uOut.st = "ok") =>
        \A j \in 1..Len(uXs) :
            /\ uOut.v[j] = IF IsZero(uMid[2][j]) THEN LineAt(LinearFit(uMid[2]), j - 1)
                            ELSE uMid[2][j]
            /\ IsZero(uOut.v[j]) =>
                   IsZero(uMid[2][j]) /\ IsZero(LineAt(LinearFit(uMid[2]), j - 1))

C8_Witness ==
    /\ uOp = "Clean"
    /\ uOut.st = "ok"
    /\ \E j \in 1..Len(uXs) :
           /\ ~IsZero(uXs[j])
           /\ IsZero(uMid[2][j])
           /\ IsFinite(uOut.v[j])
           /\ ~IsZero(uOut.v[j])

\* C9: every pixel coordinate asked of grayAt lies within the image bounds.
C9_ReadsWithinBounds == \A c \in reads : InBounds(aImg, c[1], c[2])

\* the chunk pass as described: contiguous chunks of chunkSize from offset t on,
\* the final chunk being the remainder once fewer than 8 elements are left; a
\* chunk is zeroed whole exactly when its deviation exceeds chunkMeanDev
ZeroWhole(xs, t, hi, chunkMeanDev) ==
    IF RGt(AvgAbsDev(SubSeq(xs, t + 1, hi)), chunkMeanDev)
    THEN [j \in 1..Len(xs) |-> IF t + 1 <= j /\ j <= hi THEN R(0) ELSE xs[j]]
    ELSE xs

DescribedEnd(xs, t, chunkSize) ==
    IF Len(xs) - t < ChunkTailLen THEN Len(xs) ELSE Min2(t + chunkSize, Len(xs))

RECURSIVE ChunkPassAsDescribed(_, _, _, _)
ChunkPassAsDescribed(xs, t, chunkMeanDev, chunkSize) ==
    IF t >= Len(xs) THEN xs
    ELSE ChunkPassAsDescribed(ZeroWhole(xs, t, DescribedEnd(xs, t, chunkSize), chunkMeanDev),
                              DescribedEnd(xs, t, chunkSize), chunkMeanDev, chunkSize)

\* C10: for every chunkSize >= 1 the chunk pass zeroes every value of exactly the
\* chunks whose deviation exceeds chunkMeanDev and leaves the others unchanged.
C10_ChunkPassZeroesWholeChunks ==
    (uOp = "Clean" /\ uOut.st = "ok" /\ uArgs[3] >= 1) =>
        uMid[1] = ChunkPassAsDescribed(uXs, 0, uArgs[2], uArgs[3])
====
